---- MODULE Spec2Model ----
(***************************************************************************)
(* State-machine model of the quantum key distribution engine              *)
(* (src/quantum/key_distribution/quantum_key_distribution.py).             *)
(*                                                                         *)
(* Strings are sequences of one-character strings, so that the pair id     *)
(* f"{entity1_id}:{entity2_id}" and str.split(':') are computed character  *)
(* by character.  Time is counted in ticks of one refresh interval.        *)
(* Error rates are in thousandths (0.15 is 150).                           *)
(***************************************************************************)
EXTENDS Integers, Sequences, FiniteSets, TLC

VARIABLES
    key_store,      \* self.key_store: pair id -> record
    last_refresh,   \* self.last_refresh: pair id -> timestamp
    refresh_order,  \* insertion order of self.last_refresh (dict iteration order)
    now,            \* the wall clock read by time.time()
    last,           \* the call that completed last, with its arguments and result
    simulated_keys, \* PostQuantumCrypto.simulated_keys, entries in insertion order
    issued,         \* every key pair generate_keypair has returned so far
    wire,           \* the ciphertext, signature or encapsulation produced last
    simulated_blockchain, \* HyperledgerFabricClient.simulated_blockchain
    threads,        \* the calls running concurrently: thread -> its position
    public_blockchain \* EthereumClient.simulated_blockchain, entries in insertion order

\* the state of the key distribution engine, of the post-quantum engine
qkd_vars == <<key_store, last_refresh, refresh_order, now>>
pqc_vars == <<simulated_keys, issued, wire>>

vars == <<qkd_vars, last, pqc_vars, simulated_blockchain, threads, public_blockchain>>

(***************************************************************************)
(* Bounds of the model.                                                    *)
(***************************************************************************)
\* the clock stops advancing at MaxTime
MaxTime == 2
\* the clock advances by at most MaxSkew ticks while one call is running
MaxSkew == 1

(***************************************************************************)
(* Program constants.                                                      *)
(***************************************************************************)
\* self.refresh_interval, in ticks
RefreshInterval == 1
\* establish_key: error_rate > 0.15 aborts
AbortThreshold == 150
\* check_for_eavesdropping: eavesdropping_threshold = 0.12
EavesdroppingThreshold == 120
\* hexdigest()[:16]
KeyIdLength == 16
\* length of a SHA-256 hex digest
DigestLength == 64

(***************************************************************************)
(* Inputs.                                                                 *)
(***************************************************************************)
Colon == ":"

\* entity identifiers: arbitrary strings, two of them contain ':'
Entities == { <<"a">>, <<"b">>, <<"a", ":">>, <<":", "b">> }

\* the (entity1_id, entity2_id) arguments the callers pass: one pair of plain
\* identifiers in both orders ...
Calls == { << <<"a">>, <<"b">> >>, << <<"b">>, <<"a">> >> }
\* ... or a pair of plain identifiers and two pairs with identifiers that
\* contain ':'
ColonCalls == { << <<"a">>, <<"b">> >>,
                << <<"a", ":">>, <<"b">> >>, << <<"a">>, <<":", "b">> >> }

\* the bit_length arguments the callers pass (0 is invalid)
BitLengths == {0, 5, 8}

\* the upper end of random.uniform(0.01, 0.1), in thousandths
MaxDrawnErrorRate == 100

\* a variant of Draws whose channel can deliver an error rate of 13%
DrawsEavesdropped ==
    { [raw |-> "zeros", alice |-> "zeros", bob |-> "zeros", pad |-> "ones", err |-> 10],
      [raw |-> "ones", alice |-> "zeros", bob |-> "first", pad |-> "zeros", err |-> 130] }

\* the values the random sources deliver: a pattern for the raw bits, one for
\* each basis sequence, one for the padding bits, and the channel error rate
\* (an outcome of random.uniform(0.01, 0.1): one of the two ends of the interval)
Draws ==
    { [raw |-> "zeros", alice |-> "zeros", bob |-> "zeros", pad |-> "ones", err |-> 10],
      [raw |-> "ones", alice |-> "zeros", bob |-> "first", pad |-> "zeros", err |-> 100] }

\* [random.randint(0, 1) for _ in range(len)] under a pattern
RandomBits(pattern, len) ==
    [i \in 1..len |->
        CASE pattern = "zeros" -> 0
          [] pattern = "ones"  -> 1
          [] pattern = "first" -> IF i = 1 THEN 0 ELSE 1
          [] OTHER             -> i % 2]

\* how far the clock advances between the three time.time() reads of one
\* establish_key call (key id, established_at, last_refresh)
Skews == { s \in (0..MaxSkew) \X (0..MaxSkew) : s[1] + s[2] <= MaxSkew }

(***************************************************************************)
(* Python built-ins used by the engine.                                    *)
(***************************************************************************)
None == <<"None">>
Failure == <<>>          \* the empty string

HexDigit == <<"0", "1", "2", "3", "4", "5", "6", "7",
              "8", "9", "a", "b", "c", "d", "e", "f">>

\* int(s, 2) of a non-empty string of binary digits
RECURSIVE BitsToInt(_)
BitsToInt(bits) ==
    IF Len(bits) = 0 THEN 0
    ELSE 2 * BitsToInt(SubSeq(bits, 1, Len(bits) - 1)) + bits[Len(bits)]

\* hex(v)[2:] for v >= 0
RECURSIVE Hex(_)
Hex(v) ==
    IF v < 16 THEN <<HexDigit[v + 1]>>
    ELSE Hex(v \div 16) \o <<HexDigit[(v % 16) + 1]>>

\* str.zfill(width)
RECURSIVE Zfill(_, _)
Zfill(s, width) ==
    IF Len(s) >= width THEN s ELSE Zfill(<<"0">> \o s, width)

\* str.split(sep): the pieces between the occurrences of sep
RECURSIVE Split(_, _)
Split(s, sep) ==
    IF \A i \in 1..Len(s) : s[i] # sep THEN <<s>>
    ELSE LET k == CHOOSE i \in 1..Len(s) :
                      s[i] = sep /\ \A j \in 1..(i - 1) : s[j] # sep
         IN  <<SubSeq(s, 1, k - 1)>> \o Split(SubSeq(s, k + 1, Len(s)), sep)

\* the lower-case letters, in the order of their codes
Letter == <<"a", "b", "c", "d", "e", "f", "g", "h", "i", "j", "k", "l", "m",
            "n", "o", "p", "q", "r", "s", "t", "u", "v", "w", "x", "y", "z">>

\* the codes of the characters that occur in identifiers and hex strings
CodeTable ==
    [c \in {":", "_"} \cup {Letter[k] : k \in 1..26} \cup {HexDigit[k] : k \in 1..10} |->
        CASE c = ":" -> 58
          [] c = "_" -> 95
          [] \E k \in 1..10 : HexDigit[k] = c ->
                 47 + (CHOOSE k \in 1..10 : HexDigit[k] = c)
          [] OTHER -> 96 + (CHOOSE k \in 1..26 : Letter[k] = c)]

\* ord(c); 0 stands for the code of any other character
CharCode(c) == IF c \in DOMAIN CodeTable THEN CodeTable[c] ELSE 0

\* a lone surrogate: a character that str.encode() refuses with
\* UnicodeEncodeError
Surrogate == "U+D800"

\* text.encode() succeeds
Encodable(text) == \A i \in 1..Len(text) : text[i] # Surrogate

\* str(n) for n >= 0
RECURSIVE Str(_)
Str(n) ==
    IF n < 10 THEN <<HexDigit[n + 1]>>
    ELSE Str(n \div 10) \o <<HexDigit[(n % 10) + 1]>>

\* the hashes are computed from a number below HashModulus that stands for
\* the text hashed; HashBase enters the weight of a character's position
HashModulus == 1000003
HashBase == 131

\* the text as a number: every character counts with its position
RECURSIVE SumCodes(_)
SumCodes(s) ==
    IF Len(s) = 0 THEN 0
    ELSE (CharCode(s[1]) + 3 * SumCodes(Tail(s))) % HashModulus

\* hashlib.sha256(f"{text}:{t}".encode()).hexdigest(): a fixed function of the
\* text and the time, 64 hex digits long
Sha256Hex(text, t) ==
    LET seed == SumCodes(text \o <<Colon>>) + 7 * t + 1
    IN  [i \in 1..DigestLength |-> HexDigit[((seed * (i + 2) + i * i) % 16) + 1]]

(***************************************************************************)
(* The engine's operations as functions of the store.                      *)
(***************************************************************************)
\* f"{entity1_id}:{entity2_id}"
KeyPairId(entity1_id, entity2_id) == entity1_id \o <<Colon>> \o entity2_id

\* matching_bases_indices, shared_key_bits: the raw bits at the positions
\* where the two basis sequences agree, in order
RECURSIVE SharedKeyBits(_, _, _, _)
SharedKeyBits(raw_key_bits, alice_bases, bob_bases, i) ==
    IF i > Len(raw_key_bits) THEN <<>>
    ELSE (IF alice_bases[i] = bob_bases[i] THEN <<raw_key_bits[i]>> ELSE <<>>)
         \o SharedKeyBits(raw_key_bits, alice_bases, bob_bases, i + 1)

\* final_key_bits: the first bit_length sifted bits, padded with random bits
\* when the sifted key is too short
FinalKeyBits(shared_key_bits, bit_length, pad) ==
    IF Len(shared_key_bits) >= bit_length
    THEN SubSeq(shared_key_bits, 1, bit_length)
    ELSE shared_key_bits \o RandomBits(pad, bit_length - Len(shared_key_bits))

\* a variant of HexKey that forgets the zfill
HexKeyNoFill(final_key_bits, bit_length) == Hex(BitsToInt(final_key_bits))

\* hex(int(final_key, 2))[2:].zfill(bit_length // 4)
HexKey(final_key_bits, bit_length) ==
    Zfill(Hex(BitsToInt(final_key_bits)), bit_length \div 4)

\* hashlib.sha256(...).hexdigest()[:16]
KeyId(entity1_id, entity2_id, t) ==
    SubSeq(Sha256Hex(KeyPairId(entity1_id, entity2_id), t), 1, KeyIdLength)

\* the bits establish_key turns into the key, for a draw of the random sources
DrawnKeyBits(bit_length, d) ==
    LET len == 2 * bit_length
        raw_key_bits == RandomBits(d.raw, len)
        alice_bases == RandomBits(d.alice, len)
        bob_bases == RandomBits(d.bob, len)
    IN  FinalKeyBits(SharedKeyBits(raw_key_bits, alice_bases, bob_bases, 1),
                     bit_length, d.pad)

\* d[key] = value on a Python dict: the value is replaced in place, a new key
\* goes to the end of the iteration order
DictSet(dict, key, value) == (key :> value) @@ dict
OrderSet(order, key) ==
    IF \E i \in 1..Len(order) : order[i] = key THEN order ELSE Append(order, key)

\* a variant of EstablishFailure that stamps the pair's refresh time although
\* the call fails
EstablishFailureTouch(ks, lr, ord, key_pair_id, t) ==
    [result |-> Failure, key_store |-> ks,
     last_refresh |-> IF key_pair_id \in DOMAIN lr
                      THEN DictSet(lr, key_pair_id, t) ELSE lr,
     refresh_order |-> ord, bits |-> <<>>]

\* a variant of EstablishFailure that drops the pair when the call fails
EstablishFailureForget(ks, lr, ord, key_pair_id, t) ==
    [result |-> Failure,
     key_store |-> [k \in DOMAIN ks \ {key_pair_id} |-> ks[k]],
     last_refresh |-> [k \in DOMAIN lr \ {key_pair_id} |-> lr[k]],
     refresh_order |-> SelectSeq(ord, LAMBDA k : k # key_pair_id), bits |-> <<>>]

\* establish_key returning "": the abort branch and the except branch, which
\* both leave the dicts of the pair as they are
EstablishFailure(ks, lr, ord, key_pair_id, t) ==
    [result |-> Failure, key_store |-> ks, last_refresh |-> lr,
     refresh_order |-> ord, bits |-> <<>>]

\* a variant of EstablishStore that stores the record and leaves the refresh
\* timestamp of the pair as it was
EstablishStoreRecordOnly(ks, lr, ord, key_pair_id, record, t) ==
    [result |-> record.key_id,
     key_store |-> DictSet(ks, key_pair_id, record),
     last_refresh |-> lr,
     refresh_order |-> ord,
     bits |-> <<>>]

\* establish_key storing the record and the refresh timestamp
EstablishStore(ks, lr, ord, key_pair_id, record, t) ==
    [result |-> record.key_id,
     key_store |-> DictSet(ks, key_pair_id, record),
     last_refresh |-> DictSet(lr, key_pair_id, t),
     refresh_order |-> OrderSet(ord, key_pair_id),
     bits |-> <<>>]

\* establish_key(entity1_id, entity2_id, bit_length) with the random draw d,
\* the clock reading t0 at the key id, t1 at established_at, t2 at last_refresh
EstablishKey(ks, lr, ord, entity1_id, entity2_id, bit_length, d, t0, t1, t2) ==
    LET key_pair_id == KeyPairId(entity1_id, entity2_id)
        final_key_bits == DrawnKeyBits(bit_length, d)
    IN  IF d.err > AbortThreshold
        THEN EstablishFailure(ks, lr, ord, key_pair_id, t0)
        ELSE IF Len(final_key_bits) = 0      \* int('', 2) raises ValueError
        THEN EstablishFailure(ks, lr, ord, key_pair_id, t0)
        ELSE IF ~Encodable(key_pair_id)      \* .encode() raises UnicodeEncodeError
        THEN EstablishFailure(ks, lr, ord, key_pair_id, t0)
        ELSE [EstablishStore(ks, lr, ord, key_pair_id,
                  [key_id |-> KeyId(entity1_id, entity2_id, t0),
                   key |-> HexKey(final_key_bits, bit_length),
                   established_at |-> t1,
                   bit_length |-> bit_length,
                   error_rate |-> d.err], t2)
              EXCEPT !.bits = final_key_bits]

\* the record get_shared_key and check_for_eavesdropping select: the one
\* under "e1:e2" if there is one, else the one under "e2:e1"
ActiveKeyPairId(ks, entity1_id, entity2_id) ==
    IF KeyPairId(entity1_id, entity2_id) \in DOMAIN ks
    THEN KeyPairId(entity1_id, entity2_id)
    ELSE IF KeyPairId(entity2_id, entity1_id) \in DOMAIN ks
    THEN KeyPairId(entity2_id, entity1_id)
    ELSE None

\* a variant of NeedsRefresh that lets a record live one tick longer
NeedsRefreshLate(lr, key_pair_id, t) == t - lr[key_pair_id] > RefreshInterval + 1

\* a variant of NeedsRefresh that counts an age equal to the interval as stale
NeedsRefreshInclusive(lr, key_pair_id, t) == t - lr[key_pair_id] >= RefreshInterval

\* time_since_refresh > self.refresh_interval
NeedsRefresh(lr, key_pair_id, t) == t - lr[key_pair_id] > RefreshInterval

\* a variant of GetSharedKey that refreshes the timestamp of an expired record
GetSharedKeyRefreshing(ks, lr, t, entity1_id, entity2_id) ==
    LET active_key_pair_id == ActiveKeyPairId(ks, entity1_id, entity2_id)
    IN  IF active_key_pair_id = None
        THEN [result |-> None, key_store |-> ks, last_refresh |-> lr]
        ELSE IF t - lr[active_key_pair_id] > RefreshInterval
        THEN [result |-> None, key_store |-> ks,
              last_refresh |-> DictSet(lr, active_key_pair_id, t)]
        ELSE [result |-> ks[active_key_pair_id].key, key_store |-> ks,
              last_refresh |-> lr]

\* a variant of GetSharedKey that judges the age by established_at
GetSharedKeyByEstablishedAt(ks, lr, t, entity1_id, entity2_id) ==
    LET active_key_pair_id == ActiveKeyPairId(ks, entity1_id, entity2_id)
    IN  [result |->
            IF active_key_pair_id = None THEN None
            ELSE IF t - ks[active_key_pair_id].established_at > RefreshInterval
            THEN None
            ELSE ks[active_key_pair_id].key,
         key_store |-> ks,
         last_refresh |-> lr]

\* get_shared_key(entity1_id, entity2_id) at time t: the value returned and
\* the two dicts as the call leaves them (it assigns to neither)
GetSharedKey(ks, lr, t, entity1_id, entity2_id) ==
    LET active_key_pair_id == ActiveKeyPairId(ks, entity1_id, entity2_id)
    IN  [result |->
            IF active_key_pair_id = None THEN None
            ELSE IF active_key_pair_id \in DOMAIN lr
                    /\ NeedsRefresh(lr, active_key_pair_id, t)
            THEN None
            ELSE ks[active_key_pair_id].key,
         key_store |-> ks,
         last_refresh |-> lr]

Min(x, y) == IF x <= y THEN x ELSE y

\* a variant of CheckForEavesdropping that scores an absent pair as a record
\* with error rate 0 instead of returning (False, 0.0) early
CheckForEavesdroppingDefault(ks, lr, entity1_id, entity2_id) ==
    LET active_key_pair_id == ActiveKeyPairId(ks, entity1_id, entity2_id)
        error_rate == IF active_key_pair_id = None THEN 0
                      ELSE ks[active_key_pair_id].error_rate
    IN  [result |->
            IF error_rate > EavesdroppingThreshold
            THEN <<TRUE, Min(1000, (error_rate - EavesdroppingThreshold) * 10)>>
            ELSE <<FALSE, Min(1000, (EavesdroppingThreshold - error_rate) * 10)>>,
         key_store |-> ks,
         last_refresh |-> lr]

\* check_for_eavesdropping(entity1_id, entity2_id): the pair (detected,
\* confidence) returned and the two dicts as the call leaves them
CheckForEavesdropping(ks, lr, entity1_id, entity2_id) ==
    LET active_key_pair_id == ActiveKeyPairId(ks, entity1_id, entity2_id)
    IN  [result |->
            IF active_key_pair_id = None THEN <<FALSE, 0>>
            ELSE IF ks[active_key_pair_id].error_rate > EavesdroppingThreshold
            THEN <<TRUE, Min(1000, (ks[active_key_pair_id].error_rate
                                    - EavesdroppingThreshold) * 10)>>
            ELSE <<FALSE, Min(1000, (EavesdroppingThreshold
                                     - ks[active_key_pair_id].error_rate) * 10)>>,
         key_store |-> ks,
         last_refresh |-> lr]

\* a variant of KeysToRefresh that selects every pair, stale or not
RECURSIVE KeysToRefreshAll(_, _, _, _)
KeysToRefreshAll(lr, ord, current_time, i) ==
    IF i > Len(ord) THEN <<>>
    ELSE <<ord[i]>> \o KeysToRefreshAll(lr, ord, current_time, i + 1)

\* keys_to_refresh: the pair ids whose refresh timestamp is too old, in the
\* iteration order of self.last_refresh
RECURSIVE KeysToRefresh(_, _, _, _)
KeysToRefresh(lr, ord, current_time, i) ==
    IF i > Len(ord) THEN <<>>
    ELSE (IF NeedsRefresh(lr, ord[i], current_time) THEN <<ord[i]>> ELSE <<>>)
         \o KeysToRefresh(lr, ord, current_time, i + 1)

\* the second loop of refresh_keys from position i on, at clock reading t;
\* plan[i] is the random draw and the clock skew of the i-th re-establishment.
\* entity1_id, entity2_id = key_pair_id.split(':') raises ValueError unless
\* the split has exactly two pieces; refresh_keys does not catch it.
RECURSIVE RefreshLoop(_, _, _, _, _, _, _)
RefreshLoop(ks, lr, ord, keys_to_refresh, plan, i, t) ==
    IF i > Len(keys_to_refresh)
    THEN [raised |-> FALSE, key_store |-> ks, last_refresh |-> lr,
          refresh_order |-> ord, now |-> t]
    ELSE LET key_pair_id == keys_to_refresh[i]
             parts == Split(key_pair_id, Colon)
             t1 == t + plan[i].skew[1]
             t2 == t1 + plan[i].skew[2]
             out == EstablishKey(ks, lr, ord, parts[1], parts[2],
                                 ks[key_pair_id].bit_length,
                                 plan[i].draw, t, t1, t2)
         IN  IF Len(parts) # 2
             THEN [raised |-> TRUE, key_store |-> ks, last_refresh |-> lr,
                   refresh_order |-> ord, now |-> t]
             ELSE RefreshLoop(out.key_store, out.last_refresh,
                              out.refresh_order, keys_to_refresh, plan,
                              i + 1, t2)

\* refresh_keys() at time t: the first loop, then the second
RefreshKeys(ks, lr, ord, plan, t) ==
    RefreshLoop(ks, lr, ord, KeysToRefresh(lr, ord, t, 1), plan, 1, t)

(***************************************************************************)
(* The state machine: one action per public method, and the clock.         *)
(***************************************************************************)
EmptyDict == [k \in {} |-> 0]

\* nothing has been encrypted, signed or encapsulated yet
NoArtefact == [kind |-> "none"]

\* EthereumClient._simulate_blockchain: no request and no shared data yet
EmptyLedger == [data_requests |-> <<>>, non_critical_data |-> <<>>]

\* PRIVATE_BLOCKCHAIN_CONFIG['channels']
Channels == {"medical_data", "critical_sensors"}

\* the record of a completed call
Done(op, entity1_id, entity2_id, bit_length, result, bits, raised) ==
    [op |-> op, entity1_id |-> entity1_id, entity2_id |-> entity2_id,
     bit_length |-> bit_length, result |-> result, bits |-> bits,
     raised |-> raised]

Init ==
    /\ key_store = EmptyDict
    /\ last_refresh = EmptyDict
    /\ refresh_order = <<>>
    /\ now = 0
    /\ last = Done("init", <<>>, <<>>, 0, None, <<>>, FALSE)
    /\ simulated_keys = <<>>
    /\ issued = {}
    /\ wire = NoArtefact
    /\ simulated_blockchain = [channel \in Channels |-> EmptyDict]
    /\ threads = EmptyDict
    /\ public_blockchain = EmptyLedger

\* time passes between two calls
Tick ==
    /\ now < MaxTime
    /\ now' = now + 1
    /\ last' = Done("tick", <<>>, <<>>, 0, None, <<>>, FALSE)
    /\ UNCHANGED <<key_store, last_refresh, refresh_order>>
    /\ UNCHANGED <<pqc_vars, simulated_blockchain, threads, public_blockchain>>

EstablishKeyCall(calls) ==
    \E c \in calls, bit_length \in BitLengths, d \in Draws, s \in Skews :
        /\ now + s[1] + s[2] <= MaxTime
        /\ \E out \in {EstablishKey(key_store, last_refresh, refresh_order,
                                     c[1], c[2], bit_length, d,
                                     now, now + s[1], now + s[1] + s[2])} :
               /\ key_store' = out.key_store
               /\ last_refresh' = out.last_refresh
               /\ refresh_order' = out.refresh_order
               /\ last' = Done("establish_key", c[1], c[2], bit_length,
                               out.result, out.bits, FALSE)
        /\ now' = now + s[1] + s[2]
        /\ UNCHANGED <<pqc_vars, simulated_blockchain, threads, public_blockchain>>

GetSharedKeyCall(calls) ==
    \E c \in calls :
        \E out \in {GetSharedKey(key_store, last_refresh, now, c[1], c[2])} :
            /\ key_store' = out.key_store
            /\ last_refresh' = out.last_refresh
            /\ last' = Done("get_shared_key", c[1], c[2], 0, out.result, <<>>, FALSE)
            /\ UNCHANGED <<refresh_order, now>>
            /\ UNCHANGED <<pqc_vars, simulated_blockchain, threads, public_blockchain>>

CheckForEavesdroppingCall(calls) ==
    \E c \in calls :
        \E out \in {CheckForEavesdropping(key_store, last_refresh, c[1], c[2])} :
            /\ key_store' = out.key_store
            /\ last_refresh' = out.last_refresh
            /\ last' = Done("check_for_eavesdropping", c[1], c[2], 0,
                            out.result, <<>>, FALSE)
            /\ UNCHANGED <<refresh_order, now>>
            /\ UNCHANGED <<pqc_vars, simulated_blockchain, threads, public_blockchain>>

\* the record of a completed refresh_keys call: the clock reading it took
\* (current_time), the number of pairs it selected, and whether it follows a
\* refresh_keys call with no clock advance since that call read the clock,
\* and then the number of pairs that call selected
RefreshDone(raised) ==
    [op |-> "refresh_keys", entity1_id |-> <<>>, entity2_id |-> <<>>,
     bit_length |-> 0, result |-> None, bits |-> <<>>, raised |-> raised,
     current_time |-> now,
     selected |-> Len(KeysToRefresh(last_refresh, refresh_order, now, 1)),
     again |-> last.op = "refresh_keys" /\ last.current_time = now,
     first_selected |-> IF last.op = "refresh_keys" /\ last.current_time = now
                        THEN last.selected ELSE 0]

\* the ticks the clock advances during the re-establishments of a plan
RECURSIVE PlanSkew(_, _)
PlanSkew(plan, i) ==
    IF i > Len(plan) THEN 0
    ELSE plan[i].skew[1] + plan[i].skew[2] + PlanSkew(plan, i + 1)

\* refresh_keys returns nothing, or ends with the ValueError of the unpacking
RefreshKeysCall ==
    \E plan \in [1..Len(KeysToRefresh(last_refresh, refresh_order, now, 1))
                    -> [draw : Draws, skew : Skews]] :
        /\ PlanSkew(plan, 1) <= MaxSkew
        /\ now + PlanSkew(plan, 1) <= MaxTime
        /\ \E out \in {RefreshKeys(key_store, last_refresh, refresh_order, plan, now)} :
               /\ key_store' = out.key_store
               /\ last_refresh' = out.last_refresh
               /\ refresh_order' = out.refresh_order
               /\ now' = out.now
               /\ last' = RefreshDone(out.raised)
        /\ UNCHANGED <<pqc_vars, simulated_blockchain, threads, public_blockchain>>

Next ==
    \/ Tick
    \/ EstablishKeyCall(Calls)
    \/ GetSharedKeyCall(Calls)
    \/ CheckForEavesdroppingCall(Calls)
    \/ RefreshKeysCall

Spec == Init /\ [][Next]_vars

\* the same engine, called with identifiers that contain ':'
NextColon ==
    \/ Tick
    \/ EstablishKeyCall(ColonCalls)
    \/ GetSharedKeyCall(ColonCalls)
    \/ CheckForEavesdroppingCall(ColonCalls)
    \/ RefreshKeysCall

SpecColon == Init /\ [][NextColon]_vars

(***************************************************************************)
(* The post-quantum engine (src/quantum/encryption/post_quantum_crypto.py).*)
(* Byte strings are sequences of numbers 0..255, text strings sequences of *)
(* characters; a str-or-bytes argument carries its type.                   *)
(***************************************************************************)
\* config['key_size'], in bits
KeySize == 16
\* os.urandom(16): the length of a nonce
NonceLength == 16
\* os.urandom(32): the length of a shared secret
SecretLength == 32
\* the length of a SHA-256 digest and of a SHA-512 digest, in bytes
Sha256Length == 32
Sha512Length == 64

\* n bytes, all of them v, and the bytes v, v + 1, ...
ConstBytes(n, v) == [i \in 1..n |-> v]
CountBytes(n, v) == [i \in 1..n |-> (v + i) % 256]

\* the values secrets.token_hex and os.urandom deliver
NonceDraws == { ConstBytes(NonceLength, 0), CountBytes(NonceLength, 0) }
SecretDraws == { ConstBytes(SecretLength, 255), CountBytes(SecretLength, 7) }

StrArg(text) == [type |-> "str", value |-> text]
BytesArg(bytes) == [type |-> "bytes", value |-> bytes]

\* the plaintexts the callers encrypt: of length 0, of length 1, and one byte
\* longer than a block of key material
Plaintexts ==
    { BytesArg(<<>>), StrArg(<<"a">>), BytesArg(CountBytes(Sha256Length + 1, 64)) }

\* the data the callers sign and verify
SignedData == { StrArg(<<"a">>), BytesArg(<<98, 97>>) }

\* the generate_keypair calls: the entity_id argument and the random bytes
\* the call draws; "a" is given a key pair twice, None is not a str
KeypairDraws ==
    { [entity_id |-> <<"a">>, random_bytes |-> ConstBytes(KeySize \div 8, 0)],
      [entity_id |-> <<"a">>, random_bytes |-> CountBytes(KeySize \div 8, 160)],
      [entity_id |-> <<"b">>, random_bytes |-> ConstBytes(KeySize \div 8, 0)],
      [entity_id |-> None, random_bytes |-> ConstBytes(KeySize \div 8, 0)] }

\* text.encode('utf-8') of a text of ASCII characters
Utf8(text) == [i \in 1..Len(text) |-> CharCode(text[i])]

\* "if isinstance(data, str): data.encode('utf-8') else: data"
ToBytes(arg) == IF arg.type = "str" THEN Utf8(arg.value) ELSE arg.value

\* bytes.hex(): two hex digits for each byte
BytesHex(bytes) ==
    [i \in 1..(2 * Len(bytes)) |->
        IF i % 2 = 1 THEN HexDigit[(bytes[(i + 1) \div 2] \div 16) + 1]
        ELSE HexDigit[(bytes[i \div 2] % 16) + 1]]

\* b1 ^ b2 on bytes
RECURSIVE Xor(_, _)
Xor(b1, b2) ==
    IF b1 = 0 /\ b2 = 0 THEN 0
    ELSE ((b1 + b2) % 2) + 2 * Xor(b1 \div 2, b2 \div 2)

\* the number that stands for the characters lo..hi of a text: every
\* character counts with a weight of its position
RECURSIVE TextSeed(_, _, _)
TextSeed(text, lo, hi) ==
    IF lo > hi THEN 1
    ELSE IF lo = hi
    THEN (CharCode(text[lo]) * (lo * lo * 7 + lo * HashBase + 1)) % HashModulus
    ELSE (TextSeed(text, lo, (lo + hi) \div 2)
          + TextSeed(text, (lo + hi) \div 2 + 1, hi)) % HashModulus

\* the n digest bytes of a seed: the first three are the seed itself, so that
\* different seeds have different digests
DigestBytes(seed, n, salt) ==
    [i \in 1..n |->
        CASE i = 1 -> seed % 256
          [] i = 2 -> (seed \div 256) % 256
          [] i = 3 -> (seed \div 65536 + salt) % 256
          [] OTHER -> (seed * (i + 2) + i * i + salt) % 256]

\* hashlib.sha256(text.encode()).digest() and hashlib.sha512(...).digest()
Sha256(text) == DigestBytes(TextSeed(text, 1, Len(text)), Sha256Length, 0)
Sha512(text) == DigestBytes(TextSeed(text, 1, Len(text)), Sha512Length, 101)

\* the place of entity_id in the keystore, 0 when it has no entry
KeyIndex(keys, entity_id) ==
    IF \E i \in 1..Len(keys) : keys[i].entity_id = entity_id
    THEN CHOOSE i \in 1..Len(keys) : keys[i].entity_id = entity_id
    ELSE 0

\* a variant of KeysSet that keeps the previous pair of the entity and adds
\* the new one as another version
KeysSetVersioned(keys, entity_id, public_key, private_key) ==
    Append(keys, [entity_id |-> entity_id, public_key |-> public_key,
                  private_key |-> private_key])

\* self.simulated_keys[entity_id] = {...}: an existing entry is replaced in
\* place, a new one goes to the end
KeysSet(keys, entity_id, public_key, private_key) ==
    LET entry == [entity_id |-> entity_id, public_key |-> public_key,
                  private_key |-> private_key]
    IN  IF KeyIndex(keys, entity_id) = 0 THEN Append(keys, entry)
        ELSE [keys EXCEPT ![KeyIndex(keys, entity_id)] = entry]

\* generate_keypair(entity_id) with the random bytes drawn: the pair
\* returned and the keystore as the call leaves it; private_key + entity_id
\* raises TypeError for an entity_id that is not a str, and the except branch
\* returns ("", "")
GenerateKeypair(keys, entity_id, random_bytes) ==
    LET private_key == BytesHex(random_bytes)
        public_key == BytesHex(Sha256(private_key \o entity_id))
    IN  IF entity_id = None
        THEN [result |-> <<Failure, Failure>>, simulated_keys |-> keys]
        ELSE [result |-> <<public_key, private_key>>,
              simulated_keys |-> KeysSet(keys, entity_id, public_key, private_key)]

\* key_material * n
Repeat(key_material, n) ==
    [i \in 1..(n * Len(key_material)) |->
        key_material[((i - 1) % Len(key_material)) + 1]]

\* bytes([b1 ^ b2 for b1, b2 in zip(text_bytes, key_material * (len // 32 + 1))])
XorStream(text_bytes, key_material) ==
    LET stream == Repeat(key_material, Len(text_bytes) \div Len(key_material) + 1)
    IN  [i \in 1..Min(Len(text_bytes), Len(stream)) |-> Xor(text_bytes[i], stream[i])]

\* encrypt(plaintext, public_key) with the nonce drawn: nonce + ciphertext,
\* b'' when public_key is not a str
Encrypt(plaintext, public_key, nonce) ==
    IF public_key = None THEN <<>>
    ELSE nonce \o XorStream(ToBytes(plaintext),
                            Sha256(public_key \o BytesHex(nonce)))

\* the None that decrypt returns: a value of the byte-string sort that is
\* no byte string, since 256 is no byte
NoBytes == <<256>>

\* a variant of Decrypt that slices a short ciphertext like a long one
DecryptUnchecked(ciphertext, private_key) ==
    XorStream(SubSeq(ciphertext, NonceLength + 1, Len(ciphertext)),
              Sha256(private_key \o BytesHex(SubSeq(ciphertext, 1,
                                                    Min(NonceLength, Len(ciphertext))))))

\* decrypt(ciphertext, private_key): None for a ciphertext shorter than a nonce
Decrypt(ciphertext, private_key) ==
    IF Len(ciphertext) < NonceLength THEN NoBytes
    ELSE XorStream(SubSeq(ciphertext, NonceLength + 1, Len(ciphertext)),
                   Sha256(private_key \o BytesHex(SubSeq(ciphertext, 1, NonceLength))))

\* sign(data, private_key): the hex digest of private_key + data_bytes.hex()
Sign(data, private_key) ==
    BytesHex(Sha512(private_key \o BytesHex(ToBytes(data))))

\* the first entry of the keystore with this public key, 0 when there is none
PublicKeyIndex(keys, public_key) ==
    IF \E i \in 1..Len(keys) : keys[i].public_key = public_key
    THEN CHOOSE i \in 1..Len(keys) :
             /\ keys[i].public_key = public_key
             /\ \A j \in 1..(i - 1) : keys[j].public_key # public_key
    ELSE 0

\* a variant of Verify that compares the signature without its first
\* character
VerifyTail(keys, data, signature, public_key) ==
    LET i == PublicKeyIndex(keys, public_key)
    IN  IF i = 0 THEN FALSE
        ELSE Tail(signature) = Tail(BytesHex(Sha512(keys[i].private_key
                                                    \o BytesHex(ToBytes(data)))))

\* verify(data, signature, public_key) on an engine with the keystore keys:
\* the signature is recomputed from the private key stored with public_key
Verify(keys, data, signature, public_key) ==
    LET i == PublicKeyIndex(keys, public_key)
    IN  IF i = 0 THEN FALSE
        ELSE signature = BytesHex(Sha512(keys[i].private_key
                                         \o BytesHex(ToBytes(data))))

\* key_encapsulation(public_key) with the shared secret drawn
KeyEncapsulation(public_key, shared_secret) ==
    <<shared_secret, Sha256(public_key \o BytesHex(shared_secret))>>

\* key_decapsulation(encapsulated_key, private_key)
KeyDecapsulation(encapsulated_key, private_key) ==
    Sha256(private_key \o BytesHex(encapsulated_key))

\* the record of a completed call of the post-quantum engine
PqDone(op, args, result) ==
    [op |-> op, args |-> args, result |-> result, raised |-> FALSE]

\* what a call has produced for a later call to consume
Artefact(kind, data, public_key, private_key, value) ==
    [kind |-> kind, data |-> data, public_key |-> public_key,
     private_key |-> private_key, value |-> value]

\* a signature changed in its first character
Tamper(signature) ==
    [signature EXCEPT ![1] = IF signature[1] = "0" THEN "1" ELSE "0"]

GenerateKeypairCall ==
    \E d \in KeypairDraws :
        \E out \in {GenerateKeypair(simulated_keys, d.entity_id, d.random_bytes)} :
            /\ simulated_keys' = out.simulated_keys
            /\ issued' = IF out.result = <<Failure, Failure>> THEN issued
                         ELSE issued \cup {[entity_id |-> d.entity_id,
                                            public_key |-> out.result[1],
                                            private_key |-> out.result[2]]}
            /\ last' = PqDone("generate_keypair", [entity_id |-> d.entity_id],
                              out.result)
            /\ UNCHANGED <<wire, qkd_vars, simulated_blockchain, threads, public_blockchain>>

\* encrypt under the public key of an issued pair, or under None
EncryptCall ==
    \E plaintext \in Plaintexts, nonce \in NonceDraws,
       k \in issued \cup {[public_key |-> None, private_key |-> None]} :
        \E encrypted_data \in {Encrypt(plaintext, k.public_key, nonce)} :
            /\ wire' = IF encrypted_data = <<>> THEN wire
                       ELSE Artefact("ciphertext", plaintext, k.public_key,
                                     k.private_key, encrypted_data)
            /\ last' = PqDone("encrypt", [plaintext |-> plaintext,
                                          public_key |-> k.public_key],
                              encrypted_data)
            /\ UNCHANGED <<simulated_keys, issued, qkd_vars, simulated_blockchain, threads, public_blockchain>>

\* decrypt the ciphertext produced last, its first 15 bytes or no bytes at
\* all, with the private key of the pair whose public key encrypted it
DecryptCall ==
    /\ wire.kind = "ciphertext"
    /\ \E ciphertext \in {wire.value, SubSeq(wire.value, 1, NonceLength - 1), <<>>} :
           last' = PqDone("decrypt", [ciphertext |-> ciphertext,
                                      private_key |-> wire.private_key],
                          Decrypt(ciphertext, wire.private_key))
    /\ UNCHANGED <<pqc_vars, qkd_vars, simulated_blockchain, threads, public_blockchain>>

SignCall ==
    \E data \in SignedData, k \in issued :
        /\ wire' = Artefact("signature", data, k.public_key, k.private_key,
                            Sign(data, k.private_key))
        /\ last' = PqDone("sign", [data |-> data, private_key |-> k.private_key],
                          wire'.value)
        /\ UNCHANGED <<simulated_keys, issued, qkd_vars, simulated_blockchain, threads, public_blockchain>>

\* verify on the engine that generated the keys (own) or on an engine whose
\* keystore is empty: the signature produced last or a changed one, over the
\* data signed or over other data, with any public key issued
VerifyCall ==
    /\ wire.kind = "signature"
    /\ \E own \in BOOLEAN, data \in SignedData,
          signature \in {wire.value, Tamper(wire.value)},
          public_key \in {k.public_key : k \in issued} :
           last' = PqDone("verify",
                          [own |-> own, data |-> data, signature |-> signature,
                           public_key |-> public_key],
                          Verify(IF own THEN simulated_keys ELSE <<>>,
                                 data, signature, public_key))
    /\ UNCHANGED <<pqc_vars, qkd_vars, simulated_blockchain, threads, public_blockchain>>

KeyEncapsulationCall ==
    \E k \in issued, shared_secret \in SecretDraws :
        \E out \in {KeyEncapsulation(k.public_key, shared_secret)} :
            /\ wire' = Artefact("encapsulation", BytesArg(out[1]), k.public_key,
                                k.private_key, out[2])
            /\ last' = PqDone("key_encapsulation", [public_key |-> k.public_key],
                              out)
            /\ UNCHANGED <<simulated_keys, issued, qkd_vars, simulated_blockchain, threads, public_blockchain>>

\* decapsulate the key encapsulated last with the matching private key
KeyDecapsulationCall ==
    /\ wire.kind = "encapsulation"
    /\ last' = PqDone("key_decapsulation",
                      [encapsulated_key |-> wire.value,
                       private_key |-> wire.private_key],
                      KeyDecapsulation(wire.value, wire.private_key))
    /\ UNCHANGED <<pqc_vars, qkd_vars, simulated_blockchain, threads, public_blockchain>>

NextCrypto ==
    \/ GenerateKeypairCall
    \/ EncryptCall
    \/ DecryptCall
    \/ SignCall
    \/ VerifyCall
    \/ KeyEncapsulationCall
    \/ KeyDecapsulationCall

SpecCrypto == Init /\ [][NextCrypto]_vars

(***************************************************************************)
(* The orchestrator's ingestion path (src/api/system_orchestrator.py) and  *)
(* the private ledger client (src/blockchain/private/                      *)
(* hyperledger_fabric.py).  The preprocessing and the gateway model are    *)
(* outside: an item arrives with the gateway's verdict on it.              *)
(***************************************************************************)
\* the longest batch process_iot_data is called with
MaxBatch == 2
\* handle_data_request is called until the public ledger holds MaxRequests
\* requests
MaxRequests == 2

\* 'private_blockchain', 'unknown_device', 'iot_data_'
ReceiverId == <<"p", "r", "i", "v", "a", "t", "e", "_", "b", "l", "o", "c", "k", "c", "h", "a", "i", "n">>
UnknownDevice == <<"u", "n", "k", "n", "o", "w", "n", "_", "d", "e", "v", "i", "c", "e">>
DataKeyPrefix == <<"i", "o", "t", "_", "d", "a", "t", "a", "_">>

\* establish_key's default bit_length (1024 in the source; the keys of the
\* model are one byte long)
DefaultBitLength == 8

\* HyperledgerFabricClient.connected after connect(), which cannot fail
Connected == TRUE

\* the items of a batch with the gateway filter's verdict: a device the
\* engine can establish a key for, a device whose id cannot be encoded, and
\* an item without device_id that the gateway does not let in
IotItems ==
    { [data |-> [device_id |-> <<"a">>, data_type |-> "vitals"],
       needed |-> TRUE, confidence |-> 900],
      [data |-> [device_id |-> <<Surrogate>>, data_type |-> "vitals"],
       needed |-> TRUE, confidence |-> 800],
      [data |-> [data_type |-> "noise"],
       needed |-> FALSE, confidence |-> 100] }

IotBatches == UNION { [1..n -> IotItems] : n \in 1..MaxBatch }

\* the random values of one process_iot_data call: a channel without
\* mismatching bases, a private key and a nonce
OrchestratorDraws ==
    { [draw |-> d, random_bytes |-> ConstBytes(KeySize \div 8, 0),
       nonce |-> ConstBytes(NonceLength, 0)] : d \in {x \in Draws : x.bob = "zeros"} }

\* item['data'].get('device_id', 'unknown_device')
DeviceId(data) ==
    IF "device_id" \in DOMAIN data THEN data.device_id ELSE UnknownDevice

\* f"iot_data_{int(time.time())}_{len(stored_items)}"
DataKey(t, stored_items) ==
    DataKeyPrefix \o Str(t) \o <<"_">> \o Str(Len(stored_items))

\* the characters of str(data) and json.dumps(data) that tell two data apart
DataText(data) ==
    IF "encrypted_data" \in DOMAIN data
    THEN data.encrypted_data \o data.public_key \o data.metadata.device_id
    ELSE IF "device_id" \in DOMAIN data THEN data.device_id ELSE <<>>

\* store_data(channel, key, data) at time t: the value returned and the
\* ledger as the call leaves it
StoreData(chain, channel, key, data, t) ==
    IF ~Connected THEN [result |-> FALSE, simulated_blockchain |-> chain]
    ELSE IF channel \notin Channels
    THEN [result |-> FALSE, simulated_blockchain |-> chain]
    ELSE [result |-> TRUE,
          simulated_blockchain |->
              [chain EXCEPT ![channel] =
                  DictSet(@, key,
                      [data |-> data,
                       metadata |-> [timestamp |-> t,
                                     hash |-> BytesHex(Sha256(DataText(data))),
                                     version |-> "1.0"]])]]

\* the "else" branch of "if not qkd_key_id" for one item: key pair, encrypt,
\* store_data; st is the state of the engines and of the ledger
SecureStore(st, item, sender_id, data_key, rng, t) ==
    LET kp == GenerateKeypair(st.simulated_keys,
                              sender_id \o <<"_">> \o data_key, rng.random_bytes)
        encrypted_data == Encrypt(StrArg(DataText(item.data)), kp.result[1],
                                  rng.nonce)
        stored == StoreData(st.simulated_blockchain, "medical_data", data_key,
                            [encrypted_data |-> BytesHex(encrypted_data),
                             public_key |-> kp.result[1],
                             metadata |-> [device_id |-> sender_id,
                                           timestamp |-> t,
                                           confidence |-> item.confidence]], t)
    IN  [st EXCEPT
            !.simulated_keys = kp.simulated_keys,
            !.issued = @ \cup {[entity_id |-> sender_id \o <<"_">> \o data_key,
                                public_key |-> kp.result[1],
                                private_key |-> kp.result[2]]},
            !.wire = Artefact("ciphertext", StrArg(DataText(item.data)),
                              kp.result[1], kp.result[2], encrypted_data),
            !.simulated_blockchain = stored.simulated_blockchain]

\* one pass of the loop "for item in filtered_data" (step 3)
StoreItem(st, item, rng, enabled, t) ==
    LET data_key == DataKey(t, st.stored_items)
        sender_id == DeviceId(item.data)
        est == EstablishKey(st.key_store, st.last_refresh, st.refresh_order,
                            sender_id, ReceiverId, DefaultBitLength, rng.draw,
                            t, t, t)
        established == [st EXCEPT !.key_store = est.key_store,
                                  !.last_refresh = est.last_refresh,
                                  !.refresh_order = est.refresh_order]
        after ==
            IF ~enabled
            THEN [st EXCEPT !.simulated_blockchain =
                     StoreData(@, "medical_data", data_key, item.data,
                               t).simulated_blockchain]
            ELSE IF est.result = Failure
            THEN st       \* a warning is logged, nothing is stored
            ELSE SecureStore(established, item, sender_id, data_key, rng, t)
    IN  [after EXCEPT !.stored_items = Append(@, data_key),
                      !.key_ids = Append(@, IF enabled THEN est.result ELSE None)]

RECURSIVE StoreLoop(_, _, _, _, _, _)
StoreLoop(st, filtered_data, rng, enabled, t, i) ==
    IF i > Len(filtered_data) THEN st
    ELSE StoreLoop(StoreItem(st, filtered_data[i], rng, enabled, t),
                   filtered_data, rng, enabled, t, i + 1)

\* step 2: the items the gateway filter lets in
RECURSIVE FilteredData(_, _)
FilteredData(data_list, i) ==
    IF i > Len(data_list) THEN <<>>
    ELSE (IF data_list[i].needed THEN <<data_list[i]>> ELSE <<>>)
         \o FilteredData(data_list, i + 1)

\* process_iot_data(data_list) at time t, with SYSTEM_CONFIG
\* ['enable_quantum_security'] = enabled: the final state and the report
ProcessIotData(st, data_list, rng, enabled, t) ==
    LET filtered_data == FilteredData(data_list, 1)
        end == StoreLoop(st, filtered_data, rng, enabled, t, 1)
    IN  [state |-> end,
         result |-> [status |-> "success",
                     total_records |-> Len(data_list),
                     filtered_records |-> Len(filtered_data),
                     stored_records |-> Len(end.stored_items),
                     stored_keys |-> end.stored_items]]

ProcessIotDataCall ==
    \E data_list \in IotBatches, rng \in OrchestratorDraws, enabled \in BOOLEAN :
        \E out \in {ProcessIotData(
                        [key_store |-> key_store, last_refresh |-> last_refresh,
                         refresh_order |-> refresh_order,
                         simulated_keys |-> simulated_keys, issued |-> issued,
                         wire |-> wire,
                         simulated_blockchain |-> simulated_blockchain,
                         stored_items |-> <<>>, key_ids |-> <<>>],
                        data_list, rng, enabled, now)} :
            /\ key_store' = out.state.key_store
            /\ last_refresh' = out.state.last_refresh
            /\ refresh_order' = out.state.refresh_order
            /\ simulated_keys' = out.state.simulated_keys
            /\ issued' = out.state.issued
            /\ wire' = out.state.wire
            /\ simulated_blockchain' = out.state.simulated_blockchain
            /\ last' = [op |-> "process_iot_data",
                        args |-> [data |-> data_list, enabled |-> enabled],
                        filtered_data |-> FilteredData(data_list, 1),
                        key_ids |-> out.state.key_ids,
                        result |-> out.result, raised |-> FALSE]
            /\ UNCHANGED <<now, threads, public_blockchain>>

\* the calls of one clock second
\* the requests the callers make: with and without requester_id and
\* data_type, for the type of the stored items and for a type nobody stored
DataRequests ==
    { [requester_id |-> "r1", data_type |-> "vitals", purpose |-> "study"],
      [requester_id |-> "r1", data_type |-> "labs", purpose |-> "study"],
      [data_type |-> "vitals", purpose |-> "study"],
      [requester_id |-> "r1", purpose |-> "study"] }

\* request.get(field): None when the request has no such field
RequestGet(request, field) ==
    IF field \in DOMAIN request THEN request[field] ELSE "None"

\* str(uuid.uuid4()): an id no entry of the ledger has yet
Uuid4(entries) == <<"i", "d">> \o Str(Len(entries) + 1)

\* request_data_access: the request id returned and the ledger with the
\* pending request
RequestDataAccess(ledger, requester_id, data_type, purpose, access_level) ==
    IF ~Connected THEN [result |-> Failure, ledger |-> ledger]
    ELSE [result |-> Uuid4(ledger.data_requests),
          ledger |-> [ledger EXCEPT !.data_requests =
              Append(@, [request_id |-> Uuid4(ledger.data_requests),
                         requester_id |-> requester_id,
                         data_type |-> data_type, purpose |-> purpose,
                         access_level |-> access_level,
                         status |-> "pending"])]]

\* query_data, one query key without a dot: query_key in item['data'] and
\* item['data'][query_key] == query_value
QueryMatch(data, query_key, query_value) ==
    query_key \in DOMAIN data /\ data[query_key] = query_value

\* query_data(channel, {'data_type': data_type}): the data of the matching
\* records of the channel (the model keeps which, not their order)
QueryData(chain, channel, data_type) ==
    IF ~Connected \/ channel \notin Channels THEN {}
    ELSE {chain[channel][key].data : key \in
             {k \in DOMAIN chain[channel] :
                  QueryMatch(chain[channel][k].data, "data_type", data_type)}}

\* filter_shareable_data(data, request_context): data is the list query_data
\* returned; data.copy() succeeds on a list and result.iterrows() raises
\* AttributeError, a list having no such method
FilterShareableData(data, request_context) ==
    [raised |-> TRUE, shareable_data |-> {}]

\* store_non_critical_data: the data id returned and the ledger with the data
StoreNonCriticalData(ledger, data_type, data) ==
    IF ~Connected THEN [result |-> Failure, ledger |-> ledger]
    ELSE [result |-> Uuid4(ledger.non_critical_data),
          ledger |-> [ledger EXCEPT !.non_critical_data =
              Append(@, [data_id |-> Uuid4(ledger.non_critical_data),
                         data |-> data, data_type |-> data_type])]]

\* handle_data_request(request): the response and the public ledger as the
\* call leaves it
HandleDataRequest(chain, ledger, request) ==
    LET requester_id == RequestGet(request, "requester_id")
        data_type == RequestGet(request, "data_type")
        purpose == RequestGet(request, "purpose")
        access_level == IF "access_level" \in DOMAIN request
                        THEN request.access_level ELSE "public"
        registered == RequestDataAccess(ledger, requester_id, data_type,
                                        purpose, access_level)
        private_data == QueryData(chain, "medical_data", data_type)
        filtered == FilterShareableData(private_data,
                        [requester_id |-> requester_id, purpose |-> purpose,
                         access_level |-> access_level,
                         request_id |-> registered.result])
        shared == StoreNonCriticalData(registered.ledger, data_type,
                      [request_id |-> registered.result,
                       filtered_data |-> filtered.shareable_data])
    IN  IF requester_id = "None" \/ data_type = "None"
        THEN [result |-> [status |-> "error",
                          message |-> "Missing required request parameters"],
              ledger |-> ledger]
        ELSE IF registered.result = Failure
        THEN [result |-> [status |-> "error",
                          message |-> "Failed to register data request on public blockchain"],
              ledger |-> registered.ledger]
        ELSE IF private_data = {}
        THEN [result |-> [status |-> "success",
                          message |-> "No matching data found",
                          request_id |-> registered.result, data |-> <<>>],
              ledger |-> registered.ledger]
        ELSE IF filtered.raised
        THEN [result |-> [status |-> "error",
                          message |-> "'list' object has no attribute 'iterrows'"],
              ledger |-> registered.ledger]
        ELSE [result |-> [status |-> "success",
                          request_id |-> registered.result,
                          data_id |-> shared.result,
                          record_count |-> Cardinality(filtered.shareable_data)],
              ledger |-> shared.ledger]

HandleDataRequestCall ==
    \E request \in DataRequests :
        /\ Len(public_blockchain.data_requests) < MaxRequests
        /\ \E out \in {HandleDataRequest(simulated_blockchain, public_blockchain,
                                         request)} :
               /\ public_blockchain' = out.ledger
               /\ last' = [op |-> "handle_data_request", args |-> request,
                           private_data |-> QueryData(simulated_blockchain,
                                                      "medical_data",
                                                      RequestGet(request, "data_type")),
                           result |-> out.result, raised |-> FALSE]
        /\ UNCHANGED <<qkd_vars, pqc_vars, simulated_blockchain, threads>>

NextOrchestrator ==
    \/ ProcessIotDataCall
    \/ HandleDataRequestCall

SpecOrchestrator == Init /\ [][NextOrchestrator]_vars

(***************************************************************************)
(* Concurrent callers of one QuantumKeyDistribution engine.  The engine    *)
(* takes no lock, so the calls interleave at their individual reads and    *)
(* writes of self.key_store, self.last_refresh and the clock.              *)
(***************************************************************************)
\* the bit_length arguments of the racing establish_key calls (0 fails)
RaceBitLengths == {0, 8}

\* the draw behind the record that is in the store before the calls start
PriorDraw ==
    [raw |-> "ones", alice |-> "zeros", bob |-> "zeros", pad |-> "zeros", err |-> 100]

\* the stores the racing calls can find: the empty one, or the one that an
\* establish_key of either order left at time 0
PriorStores ==
    { [key_store |-> EmptyDict, last_refresh |-> EmptyDict, refresh_order |-> <<>>] }
    \cup { [f \in {"key_store", "last_refresh", "refresh_order"} |->
               EstablishKey(EmptyDict, EmptyDict, <<>>, c[1], c[2], 8,
                            PriorDraw, 0, 0, 0)[f]] : c \in Calls }

\* an establish_key call that has not started: t0, t1, t2 are its three
\* clock readings, before and after the store as it was when the call began
\* and when it made its last write
Writer(c, bit_length, d, ks, lr) ==
    [op |-> "establish_key", pc |-> "compute",
     entity1_id |-> c[1], entity2_id |-> c[2], bit_length |-> bit_length,
     d |-> d, t0 |-> 0, t1 |-> 0, t2 |-> 0, result |-> None,
     before |-> [key_store |-> ks, last_refresh |-> lr],
     after |-> [key_store |-> ks, last_refresh |-> lr]]

\* a get_shared_key or check_for_eavesdropping call that has not started:
\* began and ended are the clock when it took its first and its last step,
\* current_time the value its own time.time() returned (-1: not called)
Reader(op, c) ==
    [op |-> op, pc |-> "find",
     entity1_id |-> c[1], entity2_id |-> c[2], active_key_pair_id |-> None,
     began |-> -1, ended |-> -1, current_time |-> -1, result |-> None]

\* two establish_key calls for the same pair, or one and a reading call
InitRace ==
    /\ \E prior \in PriorStores :
           /\ key_store = prior.key_store
           /\ last_refresh = prior.last_refresh
           /\ refresh_order = prior.refresh_order
    /\ now \in 0..MaxTime
    /\ last = Done("init", <<>>, <<>>, 0, None, <<>>, FALSE)
    /\ simulated_keys = <<>>
    /\ issued = {}
    /\ wire = NoArtefact
    /\ simulated_blockchain = [channel \in Channels |-> EmptyDict]
    /\ public_blockchain = EmptyLedger
    /\ \E c \in Calls, bit_length \in RaceBitLengths, d1 \in Draws :
           \/ \E d2 \in Draws :
                  threads = [tid \in {"w1", "w2"} |->
                                Writer(c, bit_length, IF tid = "w1" THEN d1 ELSE d2,
                                       key_store, last_refresh)]
           \/ \E op \in {"get_shared_key", "check_for_eavesdropping"},
                 rc \in Calls :
                  threads = ("w1" :> Writer(c, bit_length, d1, key_store, last_refresh))
                            @@ ("r" :> Reader(op, rc))

\* what the establish_key call w computes and stores, as the sequential
\* establish_key with the call's own three clock readings
WriterOut(w) ==
    EstablishKey(EmptyDict, EmptyDict, <<>>, w.entity1_id, w.entity2_id,
                 w.bit_length, w.d, w.t0, w.t1, w.t2)

\* the record the call w assigns to self.key_store[key_pair_id]
WriterRecord(w) ==
    WriterOut(w).key_store[KeyPairId(w.entity1_id, w.entity2_id)]

\* a variant of WrittenAt that stamps last_refresh before it stores the record
WrittenAtStampFirst(pc) ==
    IF pc = "first_write" THEN "last_refresh" ELSE "key_store"

\* the dict establish_key assigns to first and second: the record goes to
\* self.key_store, then the timestamp to self.last_refresh
WrittenAt(pc) ==
    IF pc = "first_write" THEN "key_store" ELSE "last_refresh"

\* establish_key up to the key id: the exchange, the abort check, the hex
\* key and the first clock reading; a failure returns ""
WriterCompute(tid) ==
    /\ threads[tid].op = "establish_key"
    /\ threads[tid].pc = "compute"
    /\ \E w \in {[threads[tid] EXCEPT !.t0 = now]} :
           threads' = [threads EXCEPT ![tid] =
               IF WriterOut(w).result = Failure
               THEN [w EXCEPT !.pc = "done", !.result = Failure]
               ELSE [w EXCEPT !.pc = "first_write"]]
    /\ UNCHANGED <<qkd_vars, last, pqc_vars, simulated_blockchain, public_blockchain>>

\* one of the two assignments of establish_key; the second is followed by
\* the return of key_id
WriterWrite(tid) ==
    /\ threads[tid].op = "establish_key"
    /\ threads[tid].pc \in {"first_write", "second_write"}
    /\ \E w \in {threads[tid]}, key_pair_id \in {KeyPairId(threads[tid].entity1_id,
                                                          threads[tid].entity2_id)} :
         \E stamped \in {IF WrittenAt(w.pc) = "key_store"
                         THEN [w EXCEPT !.t1 = now] ELSE [w EXCEPT !.t2 = now]} :
           /\ IF WrittenAt(w.pc) = "key_store"
              THEN /\ key_store' = DictSet(key_store, key_pair_id,
                                           WriterRecord(stamped))
                   /\ UNCHANGED <<last_refresh, refresh_order>>
              ELSE /\ last_refresh' = DictSet(last_refresh, key_pair_id, now)
                   /\ refresh_order' = OrderSet(refresh_order, key_pair_id)
                   /\ UNCHANGED key_store
           /\ threads' = [threads EXCEPT ![tid] =
                 IF w.pc = "first_write"
                 THEN [stamped EXCEPT !.pc = "second_write"]
                 ELSE [stamped EXCEPT !.pc = "done",
                                      !.result = WriterOut(stamped).result,
                                      !.after = [key_store |-> key_store',
                                                 last_refresh |-> last_refresh']]]
    /\ UNCHANGED <<now, last, pqc_vars, simulated_blockchain, public_blockchain>>

\* the reading call tid moves on: it changes nothing but its own position
ReaderStep(tid, r) ==
    /\ threads' = [threads EXCEPT ![tid] =
           [r EXCEPT !.began = IF threads[tid].pc = "find" THEN now ELSE @,
                     !.ended = now]]
    /\ UNCHANGED <<qkd_vars, last, pqc_vars, simulated_blockchain, public_blockchain>>

\* if key_pair_id in self.key_store / elif alt_key_pair_id in self.key_store:
\* one membership test at a time; without a record get_shared_key returns
\* None and check_for_eavesdropping (False, 0.0)
ReaderFind(tid) ==
    /\ threads[tid].op \in {"get_shared_key", "check_for_eavesdropping"}
    /\ threads[tid].pc \in {"find", "find_alt"}
    /\ \E r \in {threads[tid]} :
         \E key_pair_id \in {IF r.pc = "find"
                             THEN KeyPairId(r.entity1_id, r.entity2_id)
                             ELSE KeyPairId(r.entity2_id, r.entity1_id)} :
           ReaderStep(tid,
               IF key_pair_id \in DOMAIN key_store
               THEN [r EXCEPT !.active_key_pair_id = key_pair_id,
                              !.pc = IF r.op = "get_shared_key"
                                     THEN "has_refresh" ELSE "error_rate"]
               ELSE IF r.pc = "find" THEN [r EXCEPT !.pc = "find_alt"]
               ELSE [r EXCEPT !.pc = "done",
                              !.result = IF r.op = "get_shared_key"
                                         THEN None ELSE <<FALSE, 0>>])

\* get_shared_key: if active_key_pair_id in self.last_refresh
ReaderHasRefresh(tid) ==
    /\ threads[tid].op = "get_shared_key"
    /\ threads[tid].pc = "has_refresh"
    /\ ReaderStep(tid,
           [threads[tid] EXCEPT !.pc =
               IF threads[tid].active_key_pair_id \in DOMAIN last_refresh
               THEN "clock" ELSE "key"])

\* get_shared_key: the time.time() of the subtraction
ReaderClock(tid) ==
    /\ threads[tid].op = "get_shared_key"
    /\ threads[tid].pc = "clock"
    /\ ReaderStep(tid, [threads[tid] EXCEPT !.pc = "age", !.current_time = now])

\* get_shared_key: the self.last_refresh[active_key_pair_id] of the
\* subtraction and the comparison with the refresh interval
ReaderAge(tid) ==
    /\ threads[tid].op = "get_shared_key"
    /\ threads[tid].pc = "age"
    /\ ReaderStep(tid,
           IF NeedsRefresh(last_refresh, threads[tid].active_key_pair_id,
                           threads[tid].current_time)
           THEN [threads[tid] EXCEPT !.pc = "done", !.result = None]
           ELSE [threads[tid] EXCEPT !.pc = "key"])

\* get_shared_key: return self.key_store[active_key_pair_id]['key']
ReaderKey(tid) ==
    /\ threads[tid].op = "get_shared_key"
    /\ threads[tid].pc = "key"
    /\ ReaderStep(tid,
           [threads[tid] EXCEPT
               !.pc = "done",
               !.result = key_store[threads[tid].active_key_pair_id].key])

\* check_for_eavesdropping: the read of the record's error rate and the
\* verdict computed from it
ReaderErrorRate(tid) ==
    /\ threads[tid].op = "check_for_eavesdropping"
    /\ threads[tid].pc = "error_rate"
    /\ ReaderStep(tid,
           [threads[tid] EXCEPT
               !.pc = "done",
               !.result = CheckForEavesdropping(
                              (threads[tid].active_key_pair_id :>
                                   key_store[threads[tid].active_key_pair_id]),
                              EmptyDict, threads[tid].entity1_id,
                              threads[tid].entity2_id).result])

NextRace ==
    \/ Tick
    \/ \E tid \in DOMAIN threads : WriterCompute(tid)
    \/ \E tid \in DOMAIN threads : WriterWrite(tid)
    \/ \E tid \in DOMAIN threads : ReaderFind(tid)
    \/ \E tid \in DOMAIN threads : ReaderHasRefresh(tid)
    \/ \E tid \in DOMAIN threads : ReaderClock(tid)
    \/ \E tid \in DOMAIN threads : ReaderAge(tid)
    \/ \E tid \in DOMAIN threads : ReaderKey(tid)
    \/ \E tid \in DOMAIN threads : ReaderErrorRate(tid)

SpecRace == InitRace /\ [][NextRace]_vars

\* a refresh_keys call that has not started: current_time is its clock
\* reading, di_used and di_pos the size the dict iterator remembers and its
\* position in self.last_refresh.items(), next the index of the second loop,
\* stale the pairs that were stale when the call read the clock, ended the
\* clock when it returned or raised
Refresher ==
    [op |-> "refresh_keys", pc |-> "clock", current_time |-> -1,
     di_used |-> -1, di_pos |-> 0, keys_to_refresh |-> <<>>, next |-> 1,
     stale |-> {}, raised |-> FALSE, ended |-> -1]

\* a refresh_keys call next to an establish_key call or a get_shared_key call
InitRefreshRace ==
    /\ \E prior \in PriorStores :
           /\ key_store = prior.key_store
           /\ last_refresh = prior.last_refresh
           /\ refresh_order = prior.refresh_order
    /\ now \in 0..MaxTime
    /\ last = Done("init", <<>>, <<>>, 0, None, <<>>, FALSE)
    /\ simulated_keys = <<>>
    /\ issued = {}
    /\ wire = NoArtefact
    /\ simulated_blockchain = [channel \in Channels |-> EmptyDict]
    /\ public_blockchain = EmptyLedger
    /\ \E c \in Calls :
           \/ \E bit_length \in RaceBitLengths, d \in Draws :
                  threads = ("rk" :> Refresher)
                            @@ ("w1" :> Writer(c, bit_length, d, key_store, last_refresh))
           \/ threads = ("rk" :> Refresher) @@ ("r" :> Reader("get_shared_key", c))

\* current_time = time.time(); keys_to_refresh = []
RefreshClock(tid) ==
    /\ threads[tid].op = "refresh_keys"
    /\ threads[tid].pc = "clock"
    /\ threads' = [threads EXCEPT ![tid] =
           [@ EXCEPT !.pc = "iterate", !.current_time = now,
                     !.stale = {key_pair_id \in DOMAIN last_refresh :
                                    NeedsRefresh(last_refresh, key_pair_id, now)}]]
    /\ UNCHANGED <<qkd_vars, last, pqc_vars, simulated_blockchain, public_blockchain>>

\* one step of for key_pair_id, last_refresh_time in self.last_refresh.items():
\* the iterator is created with the size of the dict before its first step;
\* every step first compares that size with the size the dict has now and
\* raises RuntimeError (dictionary changed size during iteration) when they
\* differ, then ends the loop when the items are exhausted, else delivers the
\* next item, which goes to keys_to_refresh when it is stale
RefreshIterate(tid) ==
    /\ threads[tid].op = "refresh_keys"
    /\ threads[tid].pc = "iterate"
    /\ \E f \in {threads[tid]} :
         \E di_used \in {IF f.di_used = -1 THEN Cardinality(DOMAIN last_refresh)
                         ELSE f.di_used} :
           threads' = [threads EXCEPT ![tid] =
               IF di_used # Cardinality(DOMAIN last_refresh)
               THEN [f EXCEPT !.pc = "done", !.raised = TRUE,
                              !.ended = now]
               ELSE IF f.di_pos >= Len(refresh_order)
               THEN [f EXCEPT !.pc = "refresh", !.di_used = di_used]
               ELSE [f EXCEPT !.di_used = di_used,
                              !.di_pos = f.di_pos + 1,
                              !.keys_to_refresh =
                                  IF NeedsRefresh(last_refresh,
                                                  refresh_order[f.di_pos + 1],
                                                  f.current_time)
                                  THEN Append(@, refresh_order[f.di_pos + 1])
                                  ELSE @]]
    /\ UNCHANGED <<qkd_vars, last, pqc_vars, simulated_blockchain, public_blockchain>>

\* one step of for key_pair_id in keys_to_refresh: the split, the read of the
\* record's bit_length and the call of establish_key, which then runs as the
\* call "rk_call"; after the last pair refresh_keys returns
RefreshEstablish(tid) ==
    /\ threads[tid].op = "refresh_keys"
    /\ threads[tid].pc = "refresh"
    /\ \E f \in {threads[tid]} :
           IF f.next > Len(f.keys_to_refresh)
           THEN threads' = [threads EXCEPT ![tid] =
                               [f EXCEPT !.pc = "done", !.ended = now]]
           ELSE \E parts \in {Split(f.keys_to_refresh[f.next], Colon)},
                   d \in Draws :
                    threads' = (tid :> [f EXCEPT !.pc = "establishing"])
                               @@ ("rk_call" :>
                                      Writer(<<parts[1], parts[2]>>,
                                             key_store[f.keys_to_refresh[f.next]].bit_length,
                                             d, key_store, last_refresh))
                               @@ threads
    /\ UNCHANGED <<qkd_vars, last, pqc_vars, simulated_blockchain, public_blockchain>>

\* the establish_key call of refresh_keys has returned: on to the next pair
RefreshReturn(tid) ==
    /\ threads[tid].op = "refresh_keys"
    /\ threads[tid].pc = "establishing"
    /\ threads["rk_call"].pc = "done"
    /\ threads' = [threads EXCEPT ![tid] =
           [@ EXCEPT !.pc = "refresh", !.next = @ + 1]]
    /\ UNCHANGED <<qkd_vars, last, pqc_vars, simulated_blockchain, public_blockchain>>

\* the steps of a get_shared_key call
LookupStep(tid) ==
    \/ ReaderFind(tid)
    \/ ReaderHasRefresh(tid)
    \/ ReaderClock(tid)
    \/ ReaderAge(tid)
    \/ ReaderKey(tid)

NextRefreshRace ==
    \/ Tick
    \/ \E tid \in DOMAIN threads : WriterCompute(tid)
    \/ \E tid \in DOMAIN threads : WriterWrite(tid)
    \/ \E tid \in DOMAIN threads : LookupStep(tid)
    \/ \E tid \in DOMAIN threads : RefreshClock(tid)
    \/ \E tid \in DOMAIN threads : RefreshIterate(tid)
    \/ \E tid \in DOMAIN threads : RefreshEstablish(tid)
    \/ \E tid \in DOMAIN threads : RefreshReturn(tid)

SpecRefreshRace == InitRefreshRace /\ [][NextRefreshRace]_vars

(***************************************************************************)
(* Properties.                                                             *)
(***************************************************************************)
\* what get_shared_key(a, b) returns in the current state
SharedKey(a, b) == GetSharedKey(key_store, last_refresh, now, a, b).result

\* the pair ids under which a record of the unordered pair {a, b} can be stored
PairIds(a, b) == {KeyPairId(a, b), KeyPairId(b, a)} \cap DOMAIN key_store

IsHexString(s) == \A i \in 1..Len(s) : \E k \in 1..16 : s[i] = HexDigit[k]

HexValue(c) == (CHOOSE k \in 1..16 : HexDigit[k] = c) - 1

\* the integer a hex string denotes
RECURSIVE HexToInt(_)
HexToInt(s) ==
    IF Len(s) = 0 THEN 0
    ELSE 16 * HexToInt(SubSeq(s, 1, Len(s) - 1)) + HexValue(s[Len(s)])

\* the bits a hex string decodes to, four for each digit
RECURSIVE HexToBits(_)
HexToBits(s) ==
    IF Len(s) = 0 THEN <<>>
    ELSE LET v == HexValue(s[1])
         IN  <<v \div 8, (v \div 4) % 2, (v \div 2) % 2, v % 2>> \o HexToBits(Tail(s))

\* the last call was establish_key and it returned a key id
Established == last.op = "establish_key" /\ last.result # Failure

\* the record the last establish_key stored
StoredByLast == key_store[KeyPairId(last.entity1_id, last.entity2_id)]

\* C1: get_shared_key(a, b) and get_shared_key(b, a) return the same result
\* in every reachable state, for all entities a and b.
C1_OrderSymmetry ==
    \A a \in Entities, b \in Entities : SharedKey(a, b) = SharedKey(b, a)

\* C2: the key store never holds a record under "a:b" and another one under
\* "b:a", for entities a # b.
C2_OneRecordPerPair ==
    \A a \in Entities, b \in Entities :
        a # b => ~(KeyPairId(a, b) \in DOMAIN key_store
                   /\ KeyPairId(b, a) \in DOMAIN key_store)

\* C3: whenever the store holds a record of the pair {a, b} that is at most
\* refresh_interval old by its established_at, get_shared_key returns that
\* record's key in both argument orders.
C3_RetrievableWhileFresh ==
    \A a \in Entities, b \in Entities :
        \A id \in PairIds(a, b) :
            now - key_store[id].established_at <= RefreshInterval
                => /\ SharedKey(a, b) = key_store[id].key
                   /\ SharedKey(b, a) = key_store[id].key

C5_ReadYourWrite ==
    Established =>
        /\ SharedKey(last.entity1_id, last.entity2_id) = StoredByLast.key
        /\ SharedKey(last.entity2_id, last.entity1_id) = StoredByLast.key

\* C6 as stated: after a successful establish_key with any bit_length >= 1
\* the key id has 16 hex characters and the stored key is a hex string of
\* bit_length / 4 digits that decodes to the bit_length bits of the key.
C6_KeyShapeAnyLength ==
    Established =>
        /\ Len(last.result) = 16
        /\ IsHexString(last.result)
        /\ IsHexString(StoredByLast.key)
        /\ 4 * Len(StoredByLast.key) = last.bit_length
        /\ HexToBits(StoredByLast.key) = last.bits

\* C6 as amended: after a successful establish_key the key id has 16 hex
\* characters and the stored key is a hex string denoting the key's bits as a
\* number; when bit_length is divisible by 4 it has bit_length / 4 digits,
\* leading zeros kept, and decodes to the bit_length bits; otherwise it has
\* at least bit_length \div 4 digits and 4 * digits # bit_length.
C6_KeyShape ==
    Established =>
        /\ Len(last.result) = 16
        /\ IsHexString(last.result)
        /\ StoredByLast.key_id = last.result
        /\ StoredByLast.bit_length = last.bit_length
        /\ Len(last.bits) = last.bit_length
        /\ IsHexString(StoredByLast.key)
        /\ HexToInt(StoredByLast.key) = BitsToInt(last.bits)
        /\ Len(StoredByLast.key) >= last.bit_length \div 4
        /\ last.bit_length % 4 = 0 =>
               /\ 4 * Len(StoredByLast.key) = last.bit_length
               /\ HexToBits(StoredByLast.key) = last.bits
        /\ last.bit_length % 4 # 0 => 4 * Len(StoredByLast.key) # last.bit_length

\* a key of 8 bits whose first four are zero has just been stored
C6_Witness ==
    /\ Established
    /\ last.bit_length = 8
    /\ SubSeq(last.bits, 1, 4) = <<0, 0, 0, 0>>
    /\ StoredByLast.key[1] = "0"

\* C7: after refresh_keys() every stored pair is retrievable again, in
\* either argument order.
C7_RecoveryAfterRefresh ==
    last.op = "refresh_keys" =>
        \A a \in Entities, b \in Entities :
            ActiveKeyPairId(key_store, a, b) # None => SharedKey(a, b) # None

\* C8: a failed establish_key leaves key_store and last_refresh as they were.
C8_FailureChangesNothing ==
    [][(last'.op = "establish_key" /\ last'.result = Failure)
           => (key_store' = key_store /\ last_refresh' = last_refresh)]_vars

\* establish_key has just failed for a pair that has a record
C8_Witness ==
    /\ last.op = "establish_key"
    /\ last.result = Failure
    /\ KeyPairId(last.entity1_id, last.entity2_id) \in DOMAIN key_store

\* C9: no call of the engine ends with an exception.
C9_NoOperationRaises == ~last.raised

\* C10: get_shared_key and check_for_eavesdropping leave key_store and
\* last_refresh unchanged; only establish_key and refresh_keys write them.
C10_ReadsDoNotMutate ==
    [][/\ last'.op \in {"get_shared_key", "check_for_eavesdropping"}
           => (key_store' = key_store /\ last_refresh' = last_refresh)
       /\ (key_store' # key_store \/ last_refresh' # last_refresh)
           => last'.op \in {"establish_key", "refresh_keys"}]_vars

\* get_shared_key has just reported an expired record as absent
C10_Witness ==
    /\ last.op = "get_shared_key"
    /\ last.result = None
    /\ \E id \in PairIds(last.entity1_id, last.entity2_id) :
           now - last_refresh[id] > RefreshInterval

\* C11: check_for_eavesdropping(a, b) returns (False, 0.0) whenever the key
\* store holds no record of the pair under either ordering: the call that has
\* just returned did so, and a call for any absent pair would in this state.
C11_AbsentPairNotDetected ==
    /\ (last.op = "check_for_eavesdropping"
           /\ PairIds(last.entity1_id, last.entity2_id) = {})
          => last.result = <<FALSE, 0>>
    /\ \A a \in Entities, b \in Entities :
          PairIds(a, b) = {} =>
              CheckForEavesdropping(key_store, last_refresh, a, b).result
                  = <<FALSE, 0>>

\* check_for_eavesdropping has just been asked about a pair without a record
\* while the store holds the record of another pair
C11_Witness ==
    /\ last.op = "check_for_eavesdropping"
    /\ PairIds(last.entity1_id, last.entity2_id) = {}
    /\ DOMAIN key_store # {}
    /\ last.result = <<FALSE, 0>>

\* C12: decrypt(encrypt(m, pk), sk) = m for every issued key pair (pk, sk)
\* and every plaintext m of length 0, 1 and more than one 32-byte block:
\* a decrypt of the whole ciphertext produced last, with the private key of
\* the pair whose public key encrypted it, returns the bytes of the plaintext.
C12_EncryptDecryptRoundTrip ==
    (last.op = "decrypt" /\ last.args.ciphertext = wire.value)
        => last.result = ToBytes(wire.data)

\* C13: verify(data, sign(data, sk), pk) is true for every key pair (pk, sk)
\* ever issued, in every later state, also after generate_keypair has been
\* called again for the entity and also on an engine whose keystore does not
\* hold sk.
C13_VerifyIssuedKeypair ==
    (/\ last.op = "verify"
     /\ last.args.data = wire.data
     /\ last.args.signature = wire.value
     /\ last.args.public_key = wire.public_key)
        => last.result = TRUE

\* the issued key pairs that public_key belongs to
IssuedWith(public_key) == {k \in issued : k.public_key = public_key}

\* C14: verify returns false for data other than the data signed, for a
\* signature other than the one produced, and for a public key that is not
\* the public key of a pair with the signing private key: a verify call that
\* returns true was given the bytes signed, the signature produced and a
\* public key issued with the signing private key.
C14_VerifyRejectsModifications ==
    (last.op = "verify" /\ last.result = TRUE)
        => /\ ToBytes(last.args.data) = ToBytes(wire.data)
           /\ last.args.signature = wire.value
           /\ \E k \in IssuedWith(last.args.public_key) :
                  k.private_key = wire.private_key

\* verify has just rejected other data than the data signed, under the
\* signature produced and the signer's public key, which the keystore holds
C14_Witness ==
    /\ last.op = "verify"
    /\ last.args.own
    /\ last.result = FALSE
    /\ ToBytes(last.args.data) # ToBytes(wire.data)
    /\ last.args.signature = wire.value
    /\ last.args.public_key = wire.public_key
    /\ PublicKeyIndex(simulated_keys, wire.public_key) # 0

\* C15: key_decapsulation(encapsulated_key, sk) returns the shared secret
\* that key_encapsulation(pk) returned with encapsulated_key, for every
\* issued key pair (pk, sk).
C15_KemAgreement ==
    last.op = "key_decapsulation" => last.result = ToBytes(wire.data)

\* the keystore entries of the entities other than entity_id
OtherEntries(keys, entity_id) ==
    {keys[i] : i \in {j \in 1..Len(keys) : keys[j].entity_id # entity_id}}

\* C17: after generate_keypair(e) has returned (pk, sk) the keystore maps e
\* to exactly (pk, sk), the entry of every other entity is as before, and the
\* keystore never holds two entries of one entity; a failed call changes
\* nothing.
C17_GenerateReplacesOneEntry ==
    [][/\ \A i \in 1..Len(simulated_keys'), j \in 1..Len(simulated_keys') :
              simulated_keys'[i].entity_id = simulated_keys'[j].entity_id => i = j
       /\ (last'.op = "generate_keypair" /\ last'.result # <<Failure, Failure>>)
              => /\ KeyIndex(simulated_keys', last'.args.entity_id) # 0
                 /\ simulated_keys'[KeyIndex(simulated_keys', last'.args.entity_id)]
                        = [entity_id |-> last'.args.entity_id,
                           public_key |-> last'.result[1],
                           private_key |-> last'.result[2]]
                 /\ Len(simulated_keys') =
                        Cardinality(OtherEntries(simulated_keys,
                                                 last'.args.entity_id)) + 1
                 /\ OtherEntries(simulated_keys', last'.args.entity_id)
                        = OtherEntries(simulated_keys, last'.args.entity_id)
       /\ (last'.op = "generate_keypair" /\ last'.result = <<Failure, Failure>>)
              => simulated_keys' = simulated_keys
       /\ simulated_keys' # simulated_keys => last'.op = "generate_keypair"]_vars

\* generate_keypair has just replaced the key pair of an entity while the
\* keystore holds the pair of another entity
C17_Witness ==
    /\ last.op = "generate_keypair"
    /\ last.result # <<Failure, Failure>>
    /\ Len(simulated_keys) = 2
    /\ Cardinality({k \in issued : k.entity_id = last.args.entity_id}) = 2

\* C16: process_iot_data does not raise when establish_key returns "" for an
\* item; the item is still sent to the private ledger, unencrypted, and the
\* remaining items are processed.
C16_UnsecuredFallback ==
    last.op = "process_iot_data" =>
        /\ ~last.raised
        /\ last.result.status = "success"
        /\ last.result.stored_records = Len(last.filtered_data)
        /\ \A i \in 1..Len(last.filtered_data) :
               last.key_ids[i] = Failure =>
                   /\ last.result.stored_keys[i]
                          \in DOMAIN simulated_blockchain["medical_data"]
                   /\ simulated_blockchain["medical_data"]
                          [last.result.stored_keys[i]].data
                          = last.filtered_data[i].data

\* C18: a refresh_keys call that follows a refresh_keys call, with no clock
\* advance since that call read the clock, leaves key_store and last_refresh
\* as the first call left them; it re-establishes no pair (when it returns,
\* it had selected none).
C18_RefreshIdempotent ==
    [][(last'.op = "refresh_keys" /\ last'.again)
           => /\ key_store' = key_store
              /\ last_refresh' = last_refresh
              /\ now' = now
              /\ ~last'.raised => last'.selected = 0]_vars

\* a second refresh_keys has just returned after a first one that
\* re-established a pair
C18_Witness ==
    /\ last.op = "refresh_keys"
    /\ last.again
    /\ last.first_selected > 0
    /\ ~last.raised

\* the establish_key calls among the concurrent calls, and whether every
\* concurrent call has returned
Writers == {tid \in DOMAIN threads : threads[tid].op = "establish_key"}
AllReturned == \A tid \in DOMAIN threads : threads[tid].pc = "done"

\* C19: when two establish_key calls for the same pair have interleaved at
\* their individual store writes and both have returned a key id, the pair's
\* record and its last_refresh entry were written by one and the same call,
\* and the stored key_id is the key id that call returned
C19_NoLostUpdate ==
    (/\ Cardinality(Writers) = 2
     /\ AllReturned
     /\ \A tid \in Writers : threads[tid].result # Failure)
        => \E tid \in Writers :
             \E key_pair_id \in {KeyPairId(threads[tid].entity1_id,
                                           threads[tid].entity2_id)} :
               /\ key_store[key_pair_id] = WriterRecord(threads[tid])
               /\ last_refresh[key_pair_id] = threads[tid].t2
               /\ key_store[key_pair_id].key_id = threads[tid].result

\* what the reading call r returns when it runs alone at time t on the store
\* snap
Answer(r, snap, t) ==
    IF r.op = "get_shared_key"
    THEN GetSharedKey(snap.key_store, snap.last_refresh, t,
                      r.entity1_id, r.entity2_id).result
    ELSE CheckForEavesdropping(snap.key_store, snap.last_refresh,
                               r.entity1_id, r.entity2_id).result

\* the clock readings a reading call that ran alone could have taken: the
\* one the call took, or any time between its first and its last step when
\* it took none
ReadTimes(r) ==
    IF r.current_time >= 0 THEN {r.current_time} ELSE r.began..r.ended

\* the answers of the reading call r run entirely before or entirely after
\* the establish_key call w
SerialAnswers(r, w) ==
    {Answer(r, w.before, t) : t \in ReadTimes(r)}
    \cup {Answer(r, w.after, t) : t \in ReadTimes(r)}

\* C20: a get_shared_key or check_for_eavesdropping call that ran interleaved
\* with one establish_key call for the same pair has returned what it would
\* return entirely before or entirely after that establish_key call
C20_ConsistentReads ==
    (DOMAIN threads = {"w1", "r"} /\ AllReturned)
        => threads["r"].result \in SerialAnswers(threads["r"], threads["w1"])

\* a get_shared_key call returned the new key while the establish_key call
\* had stored the record but not yet the refresh timestamp, on a store whose
\* old record had expired
C20_Witness ==
    /\ DOMAIN threads = {"w1", "r"}
    /\ threads["w1"].pc = "second_write"
    /\ threads["r"].pc = "done"
    /\ threads["r"].op = "get_shared_key"
    /\ threads["r"].active_key_pair_id \in DOMAIN threads["w1"].before.key_store
    /\ threads["r"].active_key_pair_id
           = KeyPairId(threads["w1"].entity1_id, threads["w1"].entity2_id)
    /\ threads["r"].result = key_store[threads["r"].active_key_pair_id].key
    /\ threads["r"].result
           # threads["w1"].before.key_store[threads["r"].active_key_pair_id].key

\* the value is a byte string
IsBytes(value) == \A i \in 1..Len(value) : value[i] \in 0..255

\* C21: decrypt returns None for every ciphertext shorter than the 16-byte
\* nonce, and for every ciphertext of at least 16 bytes a byte string that is
\* 16 bytes shorter than the ciphertext
C21_DecryptLength ==
    last.op = "decrypt"
        => IF Len(last.args.ciphertext) < NonceLength
           THEN last.result = NoBytes
           ELSE /\ IsBytes(last.result)
                /\ Len(last.result) = Len(last.args.ciphertext) - NonceLength

\* decrypt has refused a ciphertext of 15 bytes
C21_Witness ==
    /\ last.op = "decrypt"
    /\ Len(last.args.ciphertext) = NonceLength - 1
    /\ last.result = NoBytes

\* C22: a refresh_keys call that completes has given every pair whose age
\* exceeded refresh_interval when the call read the clock a new record with
\* the bit_length of the old one and a refresh timestamp taken during the
\* call, and has left the record and the timestamp of every other pair (age
\* equal to refresh_interval included) as they were
C22_RefreshExactlyStale ==
    [][(last'.op = "refresh_keys" /\ ~last'.raised)
           => \A p \in DOMAIN last_refresh :
                IF now - last_refresh[p] > RefreshInterval
                THEN /\ key_store'[p] # key_store[p]
                     /\ key_store'[p].bit_length = key_store[p].bit_length
                     /\ key_store'[p].established_at >= now
                     /\ last_refresh'[p] >= now
                     /\ last_refresh'[p] <= now'
                ELSE /\ key_store'[p] = key_store[p]
                     /\ last_refresh'[p] = last_refresh[p]]_vars

\* refresh_keys has completed after re-establishing one pair and leaving
\* alone a pair whose age was exactly refresh_interval
C22_Witness ==
    /\ last.op = "refresh_keys"
    /\ ~last.raised
    /\ last.selected = 1
    /\ \E p \in DOMAIN last_refresh :
           last.current_time - last_refresh[p] = RefreshInterval

\* the pair ids the callers' identifiers can form
AllPairIds == {KeyPairId(a, b) : a \in Entities, b \in Entities}

\* the lifecycle state of the pair id p in the store (ks, lr) at time t
PairState(ks, lr, t, p) ==
    IF p \notin DOMAIN ks THEN "NO_KEY"
    ELSE IF NeedsRefresh(lr, p, t) THEN "EXPIRED"
    ELSE "LIVE"

\* the step is a successful establish_key call for the pair id p
EstablishedNow(p) ==
    /\ last'.op = "establish_key"
    /\ last'.result # Failure
    /\ KeyPairId(last'.entity1_id, last'.entity2_id) = p

\* the lifecycle exactly as stated: NO_KEY to LIVE by a successful
\* establish_key, LIVE to EXPIRED by time passing, EXPIRED to LIVE by
\* get_shared_key or refresh_keys, EXPIRED to NO_KEY by a failed
\* re-establishment, and nothing else
C23_LifecycleAsStated ==
    [][\A p \in AllPairIds :
         \E from \in {PairState(key_store, last_refresh, now, p)},
            to \in {PairState(key_store', last_refresh', now', p)} :
             \/ from = to
             \/ from = "NO_KEY" /\ to = "LIVE" /\ EstablishedNow(p)
             \/ from = "LIVE" /\ to = "EXPIRED" /\ now' > now
             \/ /\ from = "EXPIRED" /\ to = "LIVE"
                /\ last'.op \in {"get_shared_key", "refresh_keys"}
             \/ /\ from = "EXPIRED" /\ to = "NO_KEY"
                /\ last'.op \in {"establish_key", "refresh_keys"}
                /\ last'.result \in {Failure, None}]_vars

\* C23: the lifecycle of a pair id: it leaves NO_KEY only by a successful
\* establish_key for it and then is LIVE; it goes from LIVE to EXPIRED only
\* by the clock advancing, its record and timestamp untouched; it goes from
\* EXPIRED to LIVE only by a successful establish_key for it or by
\* refresh_keys; it never returns to NO_KEY; no other change of state occurs
C23_Lifecycle ==
    [][\A p \in AllPairIds :
         \E from \in {PairState(key_store, last_refresh, now, p)},
            to \in {PairState(key_store', last_refresh', now', p)} :
             \/ from = to
             \/ from = "NO_KEY" /\ to = "LIVE" /\ EstablishedNow(p)
             \/ /\ from = "LIVE" /\ to = "EXPIRED" /\ now' > now
                /\ key_store'[p] = key_store[p]
                /\ last_refresh'[p] = last_refresh[p]
             \/ /\ from = "EXPIRED" /\ to = "LIVE"
                /\ EstablishedNow(p) \/ last'.op = "refresh_keys"]_vars

\* refresh_keys has made an expired pair LIVE again
C23_Witness ==
    /\ last.op = "refresh_keys"
    /\ last.selected >= 1
    /\ \E p \in DOMAIN key_store :
           /\ PairState(key_store, last_refresh, now, p) = "LIVE"
           /\ key_store[p].established_at >= last.current_time
           /\ last.current_time >= RefreshInterval + 1

\* the pair ids a refresh_keys call made now would select for re-establishment
RefreshCandidates ==
    {KeysToRefresh(last_refresh, refresh_order, now, 1)[i] :
         i \in 1..Len(KeysToRefresh(last_refresh, refresh_order, now, 1))}

\* C24: at any instant and for every stored pair id p = "x:y",
\* get_shared_key(x, y) reports the pair absent (which, the record being
\* there, is because of expiry) if and only if a refresh_keys call made at
\* the same instant selects p for re-establishment
C24_SameStaleness ==
    \A c \in Calls \cup ColonCalls :
        KeyPairId(c[1], c[2]) \in DOMAIN key_store
            => (SharedKey(c[1], c[2]) = None
                    <=> KeyPairId(c[1], c[2]) \in RefreshCandidates)

\* two pairs are stored: one is expired, absent for get_shared_key and a
\* candidate; the other has an age of exactly refresh_interval, is returned
\* and is no candidate
C24_Witness ==
    \E c \in Calls, d \in Calls :
        /\ KeyPairId(c[1], c[2]) \in DOMAIN key_store
        /\ KeyPairId(d[1], d[2]) \in DOMAIN key_store
        /\ SharedKey(c[1], c[2]) = None
        /\ KeyPairId(c[1], c[2]) \in RefreshCandidates
        /\ now - last_refresh[KeyPairId(d[1], d[2])] = RefreshInterval
        /\ SharedKey(d[1], d[2]) = key_store[KeyPairId(d[1], d[2])].key
        /\ KeyPairId(d[1], d[2]) \notin RefreshCandidates

\* the data types of the items the gateway lets into the private ledger
StoredTypes == {item.data.data_type : item \in {x \in IotItems : x.needed}}

\* C25: once process_iot_data has stored records of items of data type T in
\* the private ledger, a handle_data_request with a requester_id and data
\* type T returns status 'success' together with a data_id
C25_StoredDataDiscoverable ==
    (/\ last.op = "handle_data_request"
     /\ "requester_id" \in DOMAIN last.args
     /\ "data_type" \in DOMAIN last.args
     /\ last.args.data_type \in StoredTypes
     /\ DOMAIN simulated_blockchain["medical_data"] # {})
        => /\ last.result.status = "success"
           /\ "data_id" \in DOMAIN last.result

\* the step is a process_iot_data call that reports success
ProcessedNow == last'.op = "process_iot_data" /\ last'.result.status = "success"

\* the keys the call reports are in the 'medical_data' channel when it returns
ListedKeysStored ==
    \A i \in DOMAIN last'.result.stored_keys :
        last'.result.stored_keys[i] \in DOMAIN simulated_blockchain'["medical_data"]

\* the call has replaced no record that was in the channel before it
NoOverwrite ==
    \A key \in DOMAIN simulated_blockchain["medical_data"] :
        simulated_blockchain'["medical_data"][key]
            = simulated_blockchain["medical_data"][key]

\* C26: for every process_iot_data call that returns status 'success', every
\* key in stored_keys is in the 'medical_data' channel, stored_records is the
\* number of keys written, and no record stored by an earlier call has been
\* replaced, two calls within the same clock second included
C26_StoredKeysStored ==
    [][ProcessedNow
           => /\ ListedKeysStored
              /\ last'.result.stored_records
                     = Cardinality({i \in DOMAIN last'.result.stored_keys :
                           last'.result.stored_keys[i]
                               \in DOMAIN simulated_blockchain'["medical_data"]})
              /\ NoOverwrite]_vars

\* the record and the refresh timestamp that get_shared_key(c, d) and
\* check_for_eavesdropping(c, d) read in the stores ks and lr
RecordRead(ks, lr, c, d) ==
    LET active_key_pair_id == ActiveKeyPairId(ks, c, d)
    IN  IF active_key_pair_id = None THEN None
        ELSE <<ks[active_key_pair_id],
               IF active_key_pair_id \in DOMAIN lr
               THEN lr[active_key_pair_id] ELSE -1>>

\* C27: distinct pairs never alias: an establish_key(a, b) call leaves the
\* record that get_shared_key(c, d) and check_for_eavesdropping(c, d) read as
\* it was (not created, not replaced, not re-timestamped) for every pair of
\* identifiers {c, d} other than {a, b}, identifiers with ':' included
C27_NoAlias ==
    [][last'.op = "establish_key"
           => \A c \in ColonCalls :
                  {c[1], c[2]} # {last'.entity1_id, last'.entity2_id}
                      => RecordRead(key_store', last_refresh', c[1], c[2])
                             = RecordRead(key_store, last_refresh, c[1], c[2])]_vars

\* C28: the store maps stay aligned: after every operation key_store and
\* last_refresh hold the same pair ids, the refresh timestamp of every pair is
\* not earlier than the established_at of its record, and no operation
\* removes a pair id from either map
C28_StoresAligned ==
    [][/\ DOMAIN key_store' = DOMAIN last_refresh'
       /\ \A key_pair_id \in DOMAIN key_store' :
              last_refresh'[key_pair_id] >= key_store'[key_pair_id].established_at
       /\ DOMAIN key_store \subseteq DOMAIN key_store'
       /\ DOMAIN last_refresh \subseteq DOMAIN last_refresh']_vars

\* refresh_keys has re-established one of two stored pairs and left the
\* other, and both maps hold both pair ids
C28_Witness ==
    /\ last.op = "refresh_keys"
    /\ ~last.raised
    /\ last.selected = 1
    /\ Cardinality(DOMAIN key_store) = 2
    /\ DOMAIN last_refresh = DOMAIN key_store
    /\ \E key_pair_id \in DOMAIN key_store :
           key_store[key_pair_id].established_at >= last.current_time
    /\ \E key_pair_id \in DOMAIN key_store :
           last_refresh[key_pair_id] < last.current_time

\* C29: eavesdropping is never signalled: every stored record has an error
\* rate of at most 10%, an establish_key call that gets as far as the error
\* rate test (valid bit_length, encodable id) is never aborted and returns
\* its key id, and check_for_eavesdropping answers detected = false with a
\* confidence in [0, 1], in the call just made and for every pair
C29_NeverSignalled ==
    /\ \A key_pair_id \in DOMAIN key_store :
           key_store[key_pair_id].error_rate <= MaxDrawnErrorRate
    /\ (/\ last.op = "establish_key"
        /\ last.bit_length > 0
        /\ Encodable(KeyPairId(last.entity1_id, last.entity2_id)))
           => last.result # Failure
    /\ last.op = "check_for_eavesdropping"
           => /\ last.result[1] = FALSE
              /\ last.result[2] \in 0..1000
    /\ \A c \in Calls \cup ColonCalls :
           LET answer == CheckForEavesdropping(key_store, last_refresh,
                                               c[1], c[2]).result
           IN  answer[1] = FALSE /\ answer[2] \in 0..1000

\* check_for_eavesdropping has scored a stored record whose error rate is the
\* upper end of the interval: not detected, confidence 0.2
C29_Witness ==
    /\ last.op = "check_for_eavesdropping"
    /\ last.result = <<FALSE, 200>>
    /\ \E key_pair_id \in DOMAIN key_store :
           key_store[key_pair_id].error_rate = MaxDrawnErrorRate

\* the refresh_keys calls among the concurrent calls
Refreshers == {tid \in DOMAIN threads : threads[tid].op = "refresh_keys"}

\* C30: refresh_keys tolerates concurrent establishment: interleaved with an
\* establish_key call that inserts an unknown pair or re-establishes a pair,
\* it returns without an error, every pair that was stale when it started has
\* a fresh record that get_shared_key returns when it ends, and a
\* get_shared_key call always has a step to take while refresh_keys
\* re-establishes a pair
C30_RefreshTolerant ==
    \A tid \in Refreshers :
        /\ threads[tid].pc = "done"
               => /\ ~threads[tid].raised
                  /\ now = threads[tid].ended
                         => \A key_pair_id \in threads[tid].stale :
                                LET parts == Split(key_pair_id, Colon)
                                IN  SharedKey(parts[1], parts[2]) # None
        /\ threads[tid].pc = "establishing"
               => \A r \in DOMAIN threads :
                      (threads[r].op = "get_shared_key" /\ threads[r].pc # "done")
                          => ENABLED LookupStep(r)

====
